---- MODULE Spec2Model ----
(***************************************************************************)
(* Model of the SwarmApp component (src/unnamed/part_000): the React state *)
(* holding the Parameter Set, the svg-path compile effect, and the canvas  *)
(* effect with its closure (resizeCanvas, initParticles, draw), the frame  *)
(* scheduler and the window resize listener.                               *)
(*                                                                         *)
(* Numbers.  A JavaScript number is modelled as an integer count of        *)
(* 1/Scale units.  The dimensionless factors of draw (dx / d, repul, attr, *)
(* ratio) are kept exact; every value stored into a force accumulator or a *)
(* particle field is rounded to the nearest unit, ties away from zero, so  *)
(* that rounding commutes with negation as IEEE rounding does.             *)
(* Math.random() is a choice among a few values of [0,1).                  *)
(***************************************************************************)
EXTENDS Integers, Sequences, FiniteSets, TLC

(* ----------------------------- bounds --------------------------------- *)
MaxParticles == 2
MaxEffects == 3
MaxHandle == 3

(* --------------------------- number model ----------------------------- *)
Scale == 4

Abs(a) == IF a < 0 THEN -a ELSE a
Sgn(a) == IF a < 0 THEN -1 ELSE IF a > 0 THEN 1 ELSE 0

\* a / b rounded to the nearest integer, ties away from zero (b # 0)
RoundDiv(a, b) == Sgn(a) * Sgn(b) * ((2 * Abs(a) + Abs(b)) \div (2 * Abs(b)))

\* F(x), with x evaluated once and F applied to its value
Bind(x, F(_)) == CHOOSE r \in {F(y) : y \in {x}} : TRUE

RECURSIVE SqrtSearch(_, _, _)
\* largest r in lo..hi with r*r <= n
SqrtSearch(n, lo, hi) ==
  IF lo >= hi THEN lo
  ELSE Bind((lo + hi + 1) \div 2,
            LAMBDA mid : IF mid * mid <= n THEN SqrtSearch(n, mid, hi)
                                           ELSE SqrtSearch(n, lo, mid - 1))

\* Math.hypot(dx, dy), rounded to the nearest unit
Hypot(dx, dy) ==
  Bind(dx * dx + dy * dy,
       LAMBDA n : Bind(SqrtSearch(n, 0, Abs(dx) + Abs(dy)),
                       LAMBDA r : IF n - r * r <= r THEN r ELSE r + 1))

\* NaN: what arithmetic makes of undefined (a field a preset lacks) or of a
\* string that is no number; the model's finite values never reach it
NaN == -1000000

\* a + b
Plus(a, b) == IF a = NaN \/ b = NaN THEN NaN ELSE a + b
\* a * k for a dimensionless k given in units
Times(a, k) == IF a = NaN \/ k = NaN THEN NaN ELSE RoundDiv(a * k, Scale)

\* Math.random(): a few values of [0, 1), in units
RandomValues == {0, Scale - 1}

(* --------------------------- Parameter Set ---------------------------- *)
Shapes == {"circle", "square", "line", "customSVG"}

\* path strings; new Path2D(s) throws for the malformed one
ValidPath == "M0 -1 L1 0 L0 1"
OtherPath == "M0 0 L1 1 L0 1"
BadPath == "Z Z Z ("
PathStrings == {ValidPath, OtherPath, BadPath}
Path2DThrows(s) == s = BadPath

NoPath == "null"

\* lines 54-66, 149-163: the initial values, each rounded to the nearest
\* unit (0.98 to 1, 0.005, 0.01, 0.02 and 0.05 to 0); the particle count is
\* scaled down from 2222 to the largest pool of the model
DEFAULTS ==
  [ particleCount   |-> MaxParticles,
    velocityCap     |-> (3 * Scale) \div 2,
    repulsionRadius |-> 40 * Scale,
    attractionRadius |-> 120 * Scale,
    cohesionForce   |-> 0,
    friction        |-> Scale,
    randomForce     |-> 0,
    rotationSpeed   |-> 0,
    trailOpacity    |-> 0,
    backgroundColor |-> "#000000",
    swarmColor      |-> "#FF69B4",
    shape           |-> "line",
    svgPathData     |-> ValidPath ]

NumberFields == {"particleCount", "velocityCap", "repulsionRadius",
                 "attractionRadius", "cohesionForce", "friction",
                 "randomForce", "rotationSpeed", "trailOpacity"}

\* the values a NumberField is set to (0 is what a cleared input gives)
FieldValues(f) ==
  CASE f = "particleCount"    -> 0..MaxParticles
    [] f = "velocityCap"      -> {0, Scale \div 2, (3 * Scale) \div 2}
    [] f = "repulsionRadius"  -> {0, 40 * Scale}
    [] f = "attractionRadius" -> {40 * Scale, 120 * Scale}
    [] f = "cohesionForce"    -> {0, Scale \div 4}
    [] f = "friction"         -> {(3 * Scale) \div 4, Scale}
    [] f = "randomForce"      -> {0, 2 * Scale}
    [] f = "rotationSpeed"    -> {0, Scale \div 4}
    [] f = "trailOpacity"     -> {0, Scale}

\* the two-body configuration: pure repulsion, no damping, a high cap
TwoBody ==
  [DEFAULTS EXCEPT !.particleCount = 2, !.velocityCap = 100 * Scale,
                   !.repulsionRadius = 40 * Scale,
                   !.attractionRadius = 120 * Scale,
                   !.cohesionForce = 0, !.randomForce = 0,
                   !.friction = Scale, !.rotationSpeed = 0]

\* the presets kept in localStorage
PresetMap ==
  [ twoBody |-> TwoBody,
    broken  |-> [DEFAULTS EXCEPT !.shape = "customSVG", !.svgPathData = BadPath] ]
PresetIds == {"twoBody", "broken"}

\* presets a presets file brought into localStorage (lines 325-338 store
\* whatever the file's JSON holds): one lacks friction, one lacks
\* velocityCap (applyPreset sets the state to undefined, NaN in arithmetic),
\* one has a shape that is none of the four
ImportedPresets ==
  [ noFriction |-> [DEFAULTS EXCEPT !.friction = NaN],
    noCap      |-> [DEFAULTS EXCEPT !.velocityCap = NaN],
    badShape   |-> [DEFAULTS EXCEPT !.shape = "triangle"] ]
ImportedIds == {"noFriction", "noCap", "badShape"}

(* ---------------------------- randomizer ------------------------------ *)
Fields == NumberFields \cup {"backgroundColor", "swarmColor", "shape",
                             "svgPathData"}

\* lines 173-187: every flag is on at first
AllOn == [f \in Fields |-> TRUE]

\* the path string randomizeSettings builds (always a valid path)
RandomPath == "M1 0 L2 1 L0 2"

\* randomizeSettings giving particleCount a random value whatever its flag
RandomizeSettingsMutant(opts, s) ==
  { [s EXCEPT !.particleCount = 1,
              !.velocityCap = IF opts.velocityCap THEN cap ELSE @,
              !.shape = IF opts.shape THEN sh ELSE @] :
      cap \in {Scale \div 2, 2 * Scale}, sh \in Shapes }

\* lines 366-410: the settings randomizeSettings can build from flags opts
\* and current settings s; a flagged field takes a value of the range the
\* source draws from, rounded to the unit (1000..4999 particles scaled down
\* to 1), an unflagged one the current value
RandomizeSettings(opts, s) ==
  { [ particleCount    |-> IF opts.particleCount THEN 1 ELSE s.particleCount,
      velocityCap      |-> IF opts.velocityCap THEN cap ELSE s.velocityCap,
      repulsionRadius  |-> IF opts.repulsionRadius THEN 20 * Scale
                           ELSE s.repulsionRadius,
      attractionRadius |-> IF opts.attractionRadius THEN 80 * Scale
                           ELSE s.attractionRadius,
      cohesionForce    |-> IF opts.cohesionForce THEN 0 ELSE s.cohesionForce,
      friction         |-> IF opts.friction THEN Scale ELSE s.friction,
      randomForce      |-> IF opts.randomForce THEN 0 ELSE s.randomForce,
      rotationSpeed    |-> IF opts.rotationSpeed THEN 0 ELSE s.rotationSpeed,
      trailOpacity     |-> IF opts.trailOpacity THEN 0 ELSE s.trailOpacity,
      backgroundColor  |-> IF opts.backgroundColor THEN "#1a2b3c"
                           ELSE s.backgroundColor,
      swarmColor       |-> IF opts.swarmColor THEN "#c0ffee" ELSE s.swarmColor,
      shape            |-> IF opts.shape THEN sh ELSE s.shape,
      svgPathData      |-> IF opts.svgPathData THEN RandomPath
                           ELSE s.svgPathData ] :
      cap \in {Scale \div 2, 2 * Scale}, sh \in Shapes }

(* ----------------------------- surface -------------------------------- *)
\* layout sizes of the canvas' parent element, in units
ContainerSizes == {<<800 * Scale, 600 * Scale>>, <<400 * Scale, 300 * Scale>>}

\* the positions Math.random() * width, Math.random() * height give the
\* particles of a fresh pool, in units: a pool takes a prefix of one layout
Layouts ==
  { << <<0, 0>>, <<10 * Scale, 0>>, <<13 * Scale, 4 * Scale>>,
       <<200 * Scale, 100 * Scale>> >>,
    << <<790 * Scale, 0>>, <<799 * Scale + Scale \div 4, 0>>,
       <<700 * Scale, 500 * Scale>>, <<703 * Scale, 504 * Scale>> >> }
\* the rotations Math.random() * Math.PI * 2 gives them
RotCandidates == {3 * Scale}

(* ---------------------------- share link ----------------------------- *)
\* A string is the sequence of its code points, a binary string the sequence
\* of its bytes, a base64 string the sequence of its characters' indices in
\* the base64 alphabet (62 is +, 63 is /, 64 stands for =).

\* the preset names tried: "", "A", "A\u00e9" and "\"A"
ShareNames == { <<>>, <<65>>, <<65, 233>>, <<34, 65>> }
\* the JSON value null
JsonNull == -2000000
\* the preset data tried: an object with no field, or with one field f whose
\* value is listed: {}, {f: 1}, {f: NaN}, {f: null}
ShareData == { <<>>, <<1>>, <<NaN>>, <<JsonNull>> }

\* the outcome of an operation that can throw
Threw == [ok |-> FALSE, v |-> <<>>]
Ok(v) == [ok |-> TRUE, v |-> v]

\* JSON.stringify of a field value: a digit; null for null and for NaN
JsonValue(v) ==
  IF v \in {NaN, JsonNull} THEN <<110, 117, 108, 108>> ELSE <<48 + v>>
\* JSON.stringify of preset data: {} or {"f":value}
JsonData(d) ==
  IF d = <<>> THEN <<123, 125>>
  ELSE <<123, 34, 102, 34, 58>> \o JsonValue(d[1]) \o <<125>>
RECURSIVE JsonEscape(_)
\* JSON.stringify of a string, without the quotes around it: \ before a
\* quote and before a backslash
JsonEscape(str) ==
  IF str = <<>> THEN <<>>
  ELSE (IF Head(str) \in {34, 92} THEN <<92, Head(str)>> ELSE <<Head(str)>>)
       \o JsonEscape(Tail(str))
\* line 1040: JSON.stringify({ n: name, d: data })
JsonStringify(name, data) ==
  <<123, 34, 110, 34, 58, 34>> \o JsonEscape(name)
    \o <<34, 44, 34, 100, 34, 58>> \o JsonData(data) \o <<125>>

RECURSIVE StringEnd(_, _)
\* the position of the quote that ends the JSON string whose characters
\* start at k; 0 if there is none
StringEnd(t, k) ==
  IF k > Len(t) THEN 0
  ELSE IF t[k] = 34 THEN k
  ELSE IF t[k] = 92 THEN StringEnd(t, k + 2)
  ELSE StringEnd(t, k + 1)
RECURSIVE JsonUnescape(_)
JsonUnescape(str) ==
  IF str = <<>> THEN <<>>
  ELSE IF Head(str) = 92 /\ Len(str) >= 2
       THEN <<str[2]>> \o JsonUnescape(Tail(Tail(str)))
       ELSE <<Head(str)>> \o JsonUnescape(Tail(str))
\* JSON.parse of the text of preset data
JsonParseData(t) ==
  IF t = <<123, 125>> THEN Ok(<<>>)
  ELSE IF t = <<123, 34, 102, 34, 58, 110, 117, 108, 108, 125>>
       THEN Ok(<<JsonNull>>)
  ELSE IF /\ Len(t) = 7
          /\ SubSeq(t, 1, 5) = <<123, 34, 102, 34, 58>>
          /\ t[6] \in 48..57 /\ t[7] = 125
       THEN Ok(<<t[6] - 48>>)
  ELSE Threw
\* line 1051: JSON.parse of the texts the model builds: null, {}, and
\* {"n":string,"d":data}; any other text counts as a syntax error
NoDoc == [ok |-> FALSE, isNull |-> FALSE, hasN |-> FALSE, n |-> <<>>,
          hasD |-> FALSE, d |-> <<>>]
JsonParse(t) ==
  IF t = <<110, 117, 108, 108>> THEN [NoDoc EXCEPT !.ok = TRUE, !.isNull = TRUE]
  ELSE IF t = <<123, 125>> THEN [NoDoc EXCEPT !.ok = TRUE]
  ELSE IF Len(t) >= 7 /\ SubSeq(t, 1, 6) = <<123, 34, 110, 34, 58, 34>>
       THEN LET e == StringEnd(t, 7)
            IN IF /\ e > 0
                  /\ Len(t) >= e + 8
                  /\ SubSeq(t, e + 1, e + 5) = <<44, 34, 100, 34, 58>>
                  /\ t[Len(t)] = 125
                  /\ JsonParseData(SubSeq(t, e + 6, Len(t) - 1)).ok
               THEN [ok |-> TRUE, isNull |-> FALSE, hasN |-> TRUE,
                     n |-> JsonUnescape(SubSeq(t, 7, e - 1)), hasD |-> TRUE,
                     d |-> JsonParseData(SubSeq(t, e + 6, Len(t) - 1)).v]
               ELSE NoDoc
  ELSE NoDoc

RECURSIVE Utf8Encode(_)
\* line 1040: unescape(encodeURIComponent(str)), the UTF-8 bytes of str
\* (code points below 2048)
Utf8Encode(str) ==
  IF str = <<>> THEN <<>>
  ELSE (IF Head(str) < 128 THEN <<Head(str)>>
        ELSE <<192 + Head(str) \div 64, 128 + (Head(str) % 64)>>)
       \o Utf8Encode(Tail(str))

RECURSIVE Utf8Decode(_)
\* line 1051: decodeURIComponent(escape(b)); throws on malformed UTF-8
Utf8Decode(b) ==
  IF b = <<>> THEN Ok(<<>>)
  ELSE IF b[1] < 128
       THEN LET r == Utf8Decode(Tail(b))
            IN IF r.ok THEN Ok(<<b[1]>> \o r.v) ELSE Threw
  ELSE IF b[1] \in 194..223 /\ Len(b) >= 2 /\ b[2] \in 128..191
       THEN LET r == Utf8Decode(Tail(Tail(b)))
            IN IF r.ok THEN Ok(<<(b[1] - 192) * 64 + (b[2] - 128)>> \o r.v)
               ELSE Threw
  ELSE Threw

RECURSIVE Btoa(_)
\* line 1040: btoa(b)
Btoa(b) ==
  IF Len(b) = 0 THEN <<>>
  ELSE IF Len(b) = 1
       THEN <<b[1] \div 4, (b[1] % 4) * 16, 64, 64>>
  ELSE IF Len(b) = 2
       THEN <<b[1] \div 4, (b[1] % 4) * 16 + b[2] \div 16, (b[2] % 16) * 4, 64>>
  ELSE <<b[1] \div 4, (b[1] % 4) * 16 + b[2] \div 16,
         (b[2] % 16) * 4 + b[3] \div 64, b[3] % 64>>
       \o Btoa(SubSeq(b, 4, Len(b)))

\* a space, and a character outside the base64 alphabet
Space == 99
Bang == 98
NotSpace(c) == c # Space

RECURSIVE AtobGroups(_)
AtobGroups(t) ==
  IF Len(t) = 0 THEN <<>>
  ELSE IF Len(t) = 2 THEN <<t[1] * 4 + t[2] \div 16>>
  ELSE IF Len(t) = 3
       THEN <<t[1] * 4 + t[2] \div 16, (t[2] % 16) * 16 + t[3] \div 4>>
  ELSE <<t[1] * 4 + t[2] \div 16, (t[2] % 16) * 16 + t[3] \div 4,
         (t[3] % 4) * 64 + t[4]>>
       \o AtobGroups(SubSeq(t, 5, Len(t)))
\* line 1051: atob(c): white space is dropped, then one or two = at the end
\* of a string whose length is a multiple of 4; throws if a character is
\* outside the alphabet or the length leaves remainder 1
Atob(c) ==
  LET c1 == SelectSeq(c, NotSpace)
      pad == IF Len(c1) % 4 # 0 \/ Len(c1) = 0 THEN 0
             ELSE IF c1[Len(c1)] # 64 THEN 0
             ELSE IF c1[Len(c1) - 1] # 64 THEN 1
             ELSE 2
      t == SubSeq(c1, 1, Len(c1) - pad)
  IN IF (\E k \in 1..Len(t) : t[k] \notin 0..63) \/ Len(t) % 4 = 1
     THEN Threw
     ELSE Ok(AtobGroups(t))

\* line 1042: searchParams.set and toString write +, / and = as %2B, %2F and
\* %3D (162, 163, 164)
UrlEncode(c) ==
  [k \in 1..Len(c) |-> IF c[k] \in {62, 63, 64} THEN c[k] + 100 ELSE c[k]]
\* line 1048: searchParams.get reads %2B, %2F and %3D back, and + as a space
UrlDecode(u) ==
  [k \in 1..Len(u) |-> IF u[k] \in {162, 163, 164} THEN u[k] - 100
                        ELSE IF u[k] = 62 THEN Space
                        ELSE u[k]]

\* a URL without a preset parameter
NoParam == [has |-> FALSE, preset |-> <<>>]
\* lines 1039-1044: the URL makeShareLink returns
MakeShareLink(name, data) ==
  [has |-> TRUE,
   preset |-> UrlEncode(Btoa(Utf8Encode(JsonStringify(name, data))))]

\* other preset parameters a URL can carry: an empty one, one outside the
\* alphabet, and the base64 of a byte that is no UTF-8, of the text A, of
\* the text {} and of the text null
OtherParams ==
  { <<>>, <<Bang, 0, 0, 0>>, UrlEncode(Btoa(<<255>>)), UrlEncode(Btoa(<<65>>)),
    UrlEncode(Btoa(<<123, 125>>)), UrlEncode(Btoa(<<110, 117, 108, 108>>)) }
OtherURLs == {NoParam} \cup {[has |-> TRUE, preset |-> u] : u \in OtherParams}

\* tryLoadPresetFromURL has not been called
NotCalled == [kind |-> "none", name |-> <<>>, data |-> <<>>]
NullResult == [kind |-> "null", name |-> <<>>, data |-> <<>>]
ThrewResult == [kind |-> "threw", name |-> <<>>, data |-> <<>>]

\* lines 1051-1053: the body of the try block
Decoded(p) ==
  LET bytes == Atob(p)
      text == Utf8Decode(bytes.v)
      doc == JsonParse(text.v)
  IN IF ~bytes.ok THEN ThrewResult
     ELSE IF ~text.ok THEN ThrewResult
     ELSE IF ~doc.ok \/ doc.isNull THEN ThrewResult
     ELSE IF ~doc.hasN \/ doc.n = <<>> \/ ~doc.hasD THEN NullResult
     ELSE [kind |-> "preset", name |-> doc.n, data |-> doc.d]

\* lines 1047-1055: tryLoadPresetFromURL on location.href h
TryLoadPresetFromURL(h) ==
  LET p == IF h.has THEN UrlDecode(h.preset) ELSE <<>>
  IN IF Len(p) = 0 THEN NullResult
     ELSE IF Decoded(p).kind = "threw" THEN NullResult
     ELSE Decoded(p)

(* ------------------------------ state --------------------------------- *)
\* mounted          the component is mounted
\* ctxOk            canvas.getContext("2d") returns a context (not null)
\* settings         the thirteen useState values of the Parameter Set
\* svgError         svgError is a non-empty string
\* customSVGPath2D  the ref: NoPath, or the path string it was compiled from
\* particles        particles.current
\* closures         per effect instance: the values its closure captured
\*                  (settings) and its locals width, height
\* container        clientWidth, clientHeight of the canvas' parent
\* animationFrameId animationFrameId.current (0 stands for null)
\* rafSeq           the last handle requestAnimationFrame returned
\* frames           pending frame callbacks: handle and owning instance
\* listeners        instances whose resizeCanvas is a window resize listener
\* inst             the effect instance set up last
\* frameOps         what the last executed draw did, in order
\* ctxErrors        uncaught TypeErrors raised by draw on a null context
\* lastOp           the handler that ran last
\* randomizerOptions the thirteen flags of the randomizer
\* href             location.href: whether it has a preset parameter, and the
\*                  parameter as it is written in the URL
\* fromURL          what the last call of tryLoadPresetFromURL returned
VARIABLES mounted, ctxOk, settings, svgError, customSVGPath2D, particles,
          closures, container, animationFrameId, rafSeq, frames,
          listeners, inst, frameOps, ctxErrors, lastOp, randomizerOptions,
          href, fromURL

vars == <<mounted, ctxOk, settings, svgError, customSVGPath2D, particles,
          closures, container, animationFrameId, rafSeq, frames,
          listeners, inst, frameOps, ctxErrors, lastOp, randomizerOptions,
          href, fromURL>>

\* the locals of the effect instance set up last
width == closures[inst].width
height == closures[inst].height

(* ------------------------- Simulation Step ---------------------------- *)
\* a repulsion of full strength at every distance below the radius
PairForceFullRepulsion(p1, p2, s) ==
  LET dx == p2.x - p1.x
      dy == p2.y - p1.y
      d == Hypot(dx, dy)
  IN IF d > 0 /\ d < s.repulsionRadius
     THEN << -RoundDiv(dx * Scale, d), -RoundDiv(dy * Scale, d) >>
     ELSE <<0, 0>>

\* an attraction of full strength at every distance of the attraction band
PairForceFullAttraction(p1, p2, s) ==
  LET dx == p2.x - p1.x
      dy == p2.y - p1.y
      d == Hypot(dx, dy)
      R == s.repulsionRadius
  IN IF d > 0
     THEN IF d < R
          THEN << -RoundDiv(dx * (R - d) * Scale, d * R),
                  -RoundDiv(dy * (R - d) * Scale, d * R) >>
          ELSE IF d < s.attractionRadius
               THEN << RoundDiv(dx * s.cohesionForce, d),
                       RoundDiv(dy * s.cohesionForce, d) >>
               ELSE <<0, 0>>
     ELSE <<0, 0>>

\* lines 473-488: what particle p2 adds to (fx, fy) of particle p1
\* (a comparison with a NaN operand is false)
PairForce(p1, p2, s) ==
  IF NaN \in {p1.x, p1.y, p2.x, p2.y} THEN <<0, 0>>
  ELSE
  LET dx == p2.x - p1.x
      dy == p2.y - p1.y
      R == s.repulsionRadius
      A == s.attractionRadius
      At(d) ==
        IF d > 0
        THEN IF R # NaN /\ d < R
             THEN << -RoundDiv(dx * (R - d) * Scale, d * R),
                     -RoundDiv(dy * (R - d) * Scale, d * R) >>
             ELSE IF A # NaN /\ d < A
                  THEN IF R = NaN \/ s.cohesionForce = NaN
                       THEN <<NaN, NaN>>
                       ELSE << RoundDiv(dx * (d - R) * s.cohesionForce, d * (A - R)),
                               RoundDiv(dy * (d - R) * s.cohesionForce, d * (A - R)) >>
                  ELSE <<0, 0>>
        ELSE <<0, 0>>
  IN Bind(Hypot(dx, dy), At)

RECURSIVE Force(_, _, _, _)
\* lines 467-489: the inner loop over j, from j on, for particle i
Force(ps, i, j, s) ==
  IF j > Len(ps) THEN <<0, 0>>
  ELSE Bind(<<IF i = j THEN <<0, 0>> ELSE PairForce(ps[i], ps[j], s),
              Force(ps, i, j + 1, s)>>,
            LAMBDA fr : <<Plus(fr[1][1], fr[2][1]), Plus(fr[1][2], fr[2][2])>>)

\* the velocity cap left out
ClampVelocityMutant(vx, vy, cap) == <<vx, vy>>

\* lines 499-505: the velocity cap
ClampVelocity(vx, vy, cap) ==
  IF NaN \in {vx, vy, cap} THEN <<vx, vy>>
  ELSE
  LET speed == Hypot(vx, vy)
  IN IF speed > cap
     THEN <<RoundDiv(vx * cap, speed), RoundDiv(vy * cap, speed)>>
     ELSE <<vx, vy>>

\* lines 511-515: the wrap of one coordinate
Wrap(x, dim) ==
  IF x = NaN THEN NaN
  ELSE
  LET x1 == IF x < 0 THEN x + dim ELSE x
  IN IF x1 > dim THEN x1 - dim ELSE x1

\* the integration without friction
AccelerateNoFriction(p, f, rx, ry, s) ==
  << Plus(Plus(p.vx, f[1]), Times(rx - Scale \div 2, s.randomForce)),
     Plus(Plus(p.vy, f[2]), Times(ry - Scale \div 2, s.randomForce)) >>

\* lines 491-497: forces, jitter (rx, ry are the two Math.random() results)
\* and friction
Accelerate(p, f, rx, ry, s) ==
  LET vx == Plus(Plus(p.vx, f[1]), Times(rx - Scale \div 2, s.randomForce))
      vy == Plus(Plus(p.vy, f[2]), Times(ry - Scale \div 2, s.randomForce))
  IN <<Times(vx, s.friction), Times(vy, s.friction)>>

\* lines 466-515: the update of particle i, in place
UpdateParticle(ps, i, rnd, env) ==
  LET s == env.s
      Updated(f, pre, v) ==
        [ p   |-> [ x  |-> Wrap(Plus(ps[i].x, v[1]), env.width),
                    y  |-> Wrap(Plus(ps[i].y, v[2]), env.height),
                    vx |-> v[1],
                    vy |-> v[2],
                    rotation |-> Plus(ps[i].rotation, s.rotationSpeed) ],
          pre |-> pre,
          f   |-> f,
          v0  |-> <<ps[i].vx, ps[i].vy>> ]
  IN Bind(Force(ps, i, 1, s),
       LAMBDA f : Bind(Accelerate(ps[i], f, rnd[1], rnd[2], s),
         LAMBDA pre : Bind(ClampVelocity(pre[1], pre[2], s.velocityCap),
           LAMBDA v : Updated(f, pre, v))))

\* lines 517-541: the shape draw drew for a particle ("none": nothing)
ShapeDrawn(s, path) ==
  IF s.shape \in {"circle", "square", "line"} THEN s.shape
  ELSE IF s.shape = "customSVG" /\ path # NoPath THEN "customSVG"
  ELSE "none"

\* the entries of frameOps; an update records the velocity the step found
\* (from), the accumulated (fx, fy), the velocity before the clamp (pre) and
\* the velocity after it (post)
FillRectOp == [op |-> "fillRect", i |-> 0, pre |-> <<0, 0>>, post |-> <<0, 0>>,
               kind |-> "none", force |-> <<0, 0>>, from |-> <<0, 0>>]
UpdateOp(i, pre, p, f, v0) == [op |-> "update", i |-> i, pre |-> pre,
                               post |-> <<p.vx, p.vy>>, kind |-> "none",
                               force |-> f, from |-> v0]
ShapeOp(i, p, kind) == [op |-> "shape", i |-> i, pre |-> <<p.x, p.y>>,
                        post |-> <<p.x, p.y>>, kind |-> kind,
                        force |-> <<0, 0>>, from |-> <<0, 0>>]

RECURSIVE DrawLoop(_, _, _, _, _, _)
\* lines 465-542: the loop over i, from i on; rnd[i] holds the two
\* Math.random() results of iteration i
DrawLoop(ps, i, rnd, env, path, ops) ==
  IF i > Len(ps) THEN [ps |-> ps, ops |-> ops]
  ELSE Bind(UpdateParticle(ps, i, rnd[i], env),
            LAMBDA u :
              DrawLoop([ps EXCEPT ![i] = u.p], i + 1, rnd, env, path,
                       ops \o << UpdateOp(i, u.pre, u.p, u.f, u.v0),
                                 ShapeOp(i, u.p, ShapeDrawn(env.s, path)) >>))

\* draw painting the background after the particles
DrawFrameMutant(ps, rnd, env, path) ==
  LET r == DrawLoop(ps, 1, rnd, env, path, <<>>)
  IN [ps |-> r.ps, ops |-> r.ops \o <<FillRectOp>>]

\* lines 457-542: draw, up to the request of the next frame
DrawFrame(ps, rnd, env, path) ==
  DrawLoop(ps, 1, rnd, env, path, <<FillRectOp>>)

(* ------------------------- canvas effect ------------------------------ *)
\* initParticles building a pool of a fixed size
InitParticlesMutant(n, w, h) ==
  { [i \in 1..MaxParticles |-> [x |-> l[i][1], y |-> l[i][2], vx |-> 0, vy |-> 0,
                                rotation |-> r]] :
      l \in {m \in Layouts : \A i \in 1..MaxParticles : m[i][1] < w /\ m[i][2] < h},
      r \in RotCandidates }

\* lines 447-455: the pools initParticles can build on a w x h surface
InitParticles(n, w, h) ==
  { [i \in 1..n |-> [x |-> l[i][1], y |-> l[i][2], vx |-> 0, vy |-> 0,
                     rotation |-> r]] :
      l \in {m \in Layouts : \A i \in 1..n : m[i][1] < w /\ m[i][2] < h},
      r \in RotCandidates }

\* a cleanup that leaves the resize listener registered
CleanupListenersMutant == listeners

\* lines 552-555: the cleanup of the instance set up last
CleanupListeners == listeners \ {inst}
\* a cleanup that does not cancel the pending frame
CleanupFramesMutant == frames

CleanupFrames ==
  IF animationFrameId # 0
  THEN {f \in frames : f.id # animationFrameId}
  ELSE frames

\* closures still referenced by a pending callback or a listener
Referenced(cl, fr, ls, keep) ==
  [i \in {j \in DOMAIN cl : j = keep \/ j \in ls \/ \E f \in fr : f.inst = j}
     |-> cl[i]]

\* lines 430-550: the effect body, run for settings s after the cleanup
\* left listeners ls and pending callbacks fr; i names the new instance and
\* h is the handle requestAnimationFrame returns
RunCanvasEffectAs(s, ls, fr, i, h) ==
  /\ inst' = i
  /\ LET env == [s |-> s, width |-> container[1], height |-> container[2]]
     IN closures' = Referenced((i :> env) @@ closures, fr, ls, i)
  /\ particles' \in InitParticles(s.particleCount, container[1], container[2])
  /\ listeners' = ls \cup {i}
  /\ rafSeq' = h
  /\ frames' = fr \cup {[id |-> h, inst |-> i]}
  /\ animationFrameId' = h

\* instances and handles numbered in order, up to the bounds
RunCanvasEffect(s, ls, fr) ==
  /\ inst < MaxEffects
  /\ rafSeq < MaxHandle
  /\ RunCanvasEffectAs(s, ls, fr, inst + 1, rafSeq + 1)

\* a compile effect that keeps the previous path when Path2D throws
CompiledPathMutant(s, old) ==
  IF s.shape = "customSVG" /\ ~Path2DThrows(s.svgPathData)
  THEN s.svgPathData
  ELSE old

\* lines 352-363: the compile effect, run for settings s
CompiledPath(s, old) ==
  IF s.shape = "customSVG"
  THEN IF Path2DThrows(s.svgPathData) THEN NoPath ELSE s.svgPathData
  ELSE old
CompiledError(s, old) ==
  IF s.shape = "customSVG" THEN Path2DThrows(s.svgPathData) ELSE old

\* a render that commits settings s and error flag err (as the handler set
\* it): the effects whose dependencies changed are cleaned up and run again
CommitAs(s, err, i, h) ==
  /\ mounted
  /\ s # settings
  /\ settings' = s
  /\ IF s.shape # settings.shape \/ s.svgPathData # settings.svgPathData
     THEN /\ customSVGPath2D' = CompiledPath(s, customSVGPath2D)
          /\ svgError' = CompiledError(s, err)
     ELSE /\ customSVGPath2D' = customSVGPath2D
          /\ svgError' = err
  /\ RunCanvasEffectAs(s, CleanupListeners, CleanupFrames, i, h)
  /\ UNCHANGED <<mounted, ctxOk, container, frameOps, ctxErrors,
                 randomizerOptions, href, fromURL>>

Commit(s, err) ==
  /\ inst < MaxEffects
  /\ rafSeq < MaxHandle
  /\ CommitAs(s, err, inst + 1, rafSeq + 1)

(* ------------------------------ actions ------------------------------- *)
Init ==
  /\ mounted = FALSE
  /\ ctxOk = TRUE
  /\ settings = DEFAULTS
  /\ svgError = FALSE
  /\ customSVGPath2D = NoPath
  /\ particles = <<>>
  /\ closures = <<>>
  /\ container \in ContainerSizes
  /\ animationFrameId = 0
  /\ rafSeq = 0
  /\ frames = {}
  /\ listeners = {}
  /\ inst = 0
  /\ frameOps = <<>>
  /\ ctxErrors = 0
  /\ lastOp = "init"
  /\ randomizerOptions = AllOn
  /\ href = NoParam
  /\ fromURL = NotCalled

\* lines 52-67, 189-195, 259-266, 352-363, 430-550: first render and effects
Mount ==
  /\ ~mounted
  /\ mounted' = TRUE
  /\ ctxOk' \in BOOLEAN
  /\ settings' = DEFAULTS
  /\ svgError' = CompiledError(DEFAULTS, FALSE)
  /\ customSVGPath2D' = CompiledPath(DEFAULTS, NoPath)
  /\ RunCanvasEffect(DEFAULTS, listeners, frames)
  /\ frameOps' = <<>>
  /\ lastOp' = "mount"
  /\ randomizerOptions' = AllOn
  /\ UNCHANGED <<container, ctxErrors, href, fromURL>>

\* lines 552-555: unmount runs the cleanup; state and refs are dropped
Unmount ==
  /\ mounted
  /\ mounted' = FALSE
  /\ listeners' = CleanupListeners
  /\ frames' = CleanupFrames
  /\ closures' = Referenced(closures, CleanupFrames, CleanupListeners, 0)
  /\ settings' = DEFAULTS
  /\ svgError' = FALSE
  /\ customSVGPath2D' = NoPath
  /\ particles' = <<>>
  /\ animationFrameId' = 0
  /\ frameOps' = <<>>
  /\ lastOp' = "unmount"
  /\ randomizerOptions' = AllOn
  /\ UNCHANGED <<ctxOk, container, rafSeq, inst, ctxErrors, href, fromURL>>

\* lines 132, 141: a NumberField sets its value
SetNumber ==
  /\ \E f \in NumberFields : \E v \in FieldValues(f) :
       Commit([settings EXCEPT ![f] = v], svgError)
  /\ lastOp' = "setNumber"

\* the shape select sets the shape
SetShape ==
  /\ \E v \in Shapes : Commit([settings EXCEPT !.shape = v], svgError)
  /\ lastOp' = "setShape"

\* lines 341-350: the path input, rendered only while shape is customSVG
HandleSvgChange ==
  /\ mounted
  /\ settings.shape = "customSVG"
  /\ \E pathData \in PathStrings :
       Commit([settings EXCEPT !.svgPathData = pathData], Path2DThrows(pathData))
  /\ lastOp' = "handleSvgChange"

\* lines 288-300, 237-251: loadPreset applies a stored preset
LoadPreset ==
  /\ \E id \in PresetIds : Commit(PresetMap[id], svgError)
  /\ lastOp' = "loadPreset"

\* lines 437-445: the container changes size and the window resize event
\* runs every registered resizeCanvas
Resize ==
  /\ \E sz \in ContainerSizes :
       /\ sz # container
       /\ container' = sz
       /\ closures' = [i \in DOMAIN closures |->
                         IF i \in listeners
                         THEN [closures[i] EXCEPT !.width = sz[1], !.height = sz[2]]
                         ELSE closures[i]]
  /\ lastOp' = "resize"
  /\ UNCHANGED <<mounted, ctxOk, settings, svgError, customSVGPath2D, particles,
                 animationFrameId, rafSeq, frames, listeners, inst, frameOps,
                 ctxErrors, randomizerOptions, href, fromURL>>

\* draw ending without a request for the next frame
NextFramesMutant(fr, f, h) == fr \ {f}

\* line 544: the callback that ran is gone, its request for the next frame
\* is pending under handle h
NextFrames(fr, f, h) == (fr \ {f}) \cup {[id |-> h, inst |-> f.inst]}

\* lines 457-545: a pending frame callback runs draw; h is the handle its
\* requestAnimationFrame returns
TickAs(h) ==
  /\ \E f \in frames :
       IF ctxOk
       THEN /\ \E rnd \in [1..Len(particles) ->
                            IF closures[f.inst].s.randomForce \in {0, NaN}
                            THEN {<<0, 0>>}
                            ELSE RandomValues \X RandomValues] :
                 \E r \in {DrawFrame(particles, rnd, closures[f.inst],
                                      customSVGPath2D)} :
                    /\ particles' = r.ps
                    /\ frameOps' = r.ops
            /\ rafSeq' = h
            /\ frames' = NextFrames(frames, f, h)
            /\ animationFrameId' = h
            /\ UNCHANGED ctxErrors
       ELSE /\ frames' = frames \ {f}
            /\ ctxErrors' = ctxErrors + 1
            /\ UNCHANGED <<particles, frameOps, rafSeq, animationFrameId>>
  /\ lastOp' = "tick"
  /\ UNCHANGED <<mounted, ctxOk, settings, svgError, customSVGPath2D, closures,
                 container, listeners, inst, randomizerOptions, href, fromURL>>

\* handles numbered in order, up to the bound
Tick ==
  /\ ctxOk => rafSeq < MaxHandle
  /\ TickAs(rafSeq + 1)

\* lines 288-300, 237-251: loadPreset applies a preset that was imported
LoadImported ==
  /\ \E id \in ImportedIds : Commit(ImportedPresets[id], svgError)
  /\ lastOp' = "loadPreset"

\* lines 366-427, 237-251: Randomize Selected
Randomize ==
  /\ \E s \in RandomizeSettings(randomizerOptions, settings) :
       Commit(s, svgError)
  /\ lastOp' = "randomize"

\* use-simple-presets.ts lines 58-62: a share link is made, and the page is
\* opened with it
Share ==
  /\ \E name \in ShareNames : \E data \in ShareData :
       href' = MakeShareLink(name, data)
  /\ lastOp' = "share"
  /\ UNCHANGED <<mounted, ctxOk, settings, svgError, customSVGPath2D, particles,
                 closures, container, animationFrameId, rafSeq, frames,
                 listeners, inst, frameOps, ctxErrors, randomizerOptions,
                 fromURL>>

\* the page is opened with a URL that no share link gave
OpenURL ==
  /\ href' \in OtherURLs
  /\ lastOp' = "openURL"
  /\ UNCHANGED <<mounted, ctxOk, settings, svgError, customSVGPath2D, particles,
                 closures, container, animationFrameId, rafSeq, frames,
                 listeners, inst, frameOps, ctxErrors, randomizerOptions,
                 fromURL>>

\* use-simple-presets.ts line 14: tryLoadPresetFromURL is called
LoadFromURL ==
  /\ fromURL' = TryLoadPresetFromURL(href)
  /\ lastOp' = "tryLoadPresetFromURL"
  /\ UNCHANGED <<mounted, ctxOk, settings, svgError, customSVGPath2D, particles,
                 closures, container, animationFrameId, rafSeq, frames,
                 listeners, inst, frameOps, ctxErrors, randomizerOptions,
                 href>>

Next ==
  \/ Mount
  \/ Unmount
  \/ SetNumber
  \/ SetShape
  \/ HandleSvgChange
  \/ LoadPreset
  \/ Resize
  \/ Tick

Spec == Init /\ [][Next]_vars

\* the Simulation Step applied to given inputs: parameters and two-particle
\* pools, the second particle at rest at a distance to the right of the first
StepRepulsion == {0, 40 * Scale, 130 * Scale}
StepAttraction == {40 * Scale, 120 * Scale}
StepCohesion == {0, 1, Scale, -Scale}
StepFriction == {0, Scale}
StepCaps == {Scale \div 2, 100 * Scale}
StepDistances == {0, 1, 20 * Scale, 40 * Scale - 1, 40 * Scale, 40 * Scale + 1,
                  80 * Scale, 120 * Scale - 1, 120 * Scale, 130 * Scale,
                  140 * Scale}
StepVelocities == {<<0, 0>>, <<3, -2>>}
StepSettings ==
  { [TwoBody EXCEPT !.repulsionRadius = r, !.attractionRadius = a,
                    !.cohesionForce = c, !.friction = k, !.velocityCap = cap] :
      r \in StepRepulsion, a \in StepAttraction, c \in StepCohesion,
      k \in StepFriction, cap \in StepCaps }
StepPools ==
  { << [x |-> 100 * Scale, y |-> 100 * Scale, vx |-> v[1], vy |-> v[2],
        rotation |-> 0],
       [x |-> 100 * Scale + d, y |-> 100 * Scale, vx |-> 0, vy |-> 0,
        rotation |-> 0] >> : d \in StepDistances, v \in StepVelocities }

\* a running loop on an 800x600 surface, about to run draw on the inputs
InitStep ==
  /\ mounted = TRUE
  /\ ctxOk = TRUE
  /\ settings \in StepSettings
  /\ svgError = FALSE
  /\ customSVGPath2D = NoPath
  /\ particles \in StepPools
  /\ closures = (1 :> [s |-> settings, width |-> 800 * Scale,
                       height |-> 600 * Scale])
  /\ container = <<800 * Scale, 600 * Scale>>
  /\ animationFrameId = 1
  /\ rafSeq = 1
  /\ frames = {[id |-> 1, inst |-> 1]}
  /\ listeners = {1}
  /\ inst = 1
  /\ frameOps = <<>>
  /\ ctxErrors = 0
  /\ lastOp = "mount"
  /\ randomizerOptions = AllOn
  /\ href = NoParam
  /\ fromURL = NotCalled

NextStep == Tick

SpecStep == InitStep /\ [][NextStep]_vars

\* the share link library
NextShare ==
  \/ Share
  \/ OpenURL
  \/ LoadFromURL

SpecShare == Init /\ [][NextShare]_vars

\* the loop without an end: instances and handles are named by the least
\* number no pending callback, listener or ref still holds, and the pool
\* holds at most one particle, which stays at rest, so that the loop can run
\* for ever within finitely many states
FreeHandle ==
  CHOOSE h \in 1..MaxHandle :
    h # animationFrameId /\ \A f \in frames : f.id # h
FreeInst ==
  CHOOSE i \in 1..MaxEffects :
    i # inst /\ i \notin listeners /\ \A f \in frames : f.inst # i

Lone == [DEFAULTS EXCEPT !.particleCount = 1]
LiveSettings ==
  { Lone, [Lone EXCEPT !.trailOpacity = Scale],
    [Lone EXCEPT !.particleCount = 0],
    [Lone EXCEPT !.friction = (3 * Scale) \div 4],
    [Lone EXCEPT !.shape = "circle"] }

InitLive ==
  /\ mounted = TRUE
  /\ ctxOk = TRUE
  /\ settings = Lone
  /\ svgError = FALSE
  /\ customSVGPath2D = NoPath
  /\ container \in ContainerSizes
  /\ particles \in InitParticles(settings.particleCount, container[1],
                                  container[2])
  /\ closures = (1 :> [s |-> settings, width |-> container[1],
                       height |-> container[2]])
  /\ animationFrameId = 1
  /\ rafSeq = 1
  /\ frames = {[id |-> 1, inst |-> 1]}
  /\ listeners = {1}
  /\ inst = 1
  /\ frameOps = <<>>
  /\ ctxErrors = 0
  /\ lastOp = "setNumber"
  /\ randomizerOptions = AllOn
  /\ href = NoParam
  /\ fromURL = NotCalled

\* a NumberField sets its value
ChangeLive ==
  /\ \E s \in LiveSettings : CommitAs(s, svgError, FreeInst, FreeHandle)
  /\ lastOp' = "setNumber"

TickLive == TickAs(FreeHandle)

NextLive ==
  \/ ChangeLive
  \/ Resize
  \/ TickLive
  \/ Unmount

\* what TickLive does to the scheduler; of the steps of NextLive only those
\* of TickLive are steps of FrameRuns
FrameRuns ==
  \E f \in frames :
    /\ frames' = IF ctxOk THEN NextFrames(frames, f, FreeHandle)
                 ELSE frames \ {f}
    /\ lastOp' = "tick"

\* the browser runs a pending frame callback at the next repaint
SpecLive ==
  InitLive /\ [][NextLive]_vars /\ WF_<<frames, lastOp>>(FrameRuns)

\* the randomizer applied to given inputs: settings that differ from what
\* randomizeSettings draws, and every combination of flags the toggles
\* (lines 704-958) can leave
Tuned ==
  [DEFAULTS EXCEPT !.velocityCap = Scale, !.cohesionForce = Scale \div 4,
                   !.friction = (3 * Scale) \div 4, !.randomForce = 2 * Scale,
                   !.rotationSpeed = Scale \div 4, !.trailOpacity = Scale,
                   !.svgPathData = OtherPath]
RandomizeStarts == {DEFAULTS, Tuned}

\* a running loop, the user about to press Randomize Selected
InitRandomize ==
  /\ mounted = TRUE
  /\ ctxOk = TRUE
  /\ settings \in RandomizeStarts
  /\ svgError = FALSE
  /\ customSVGPath2D = NoPath
  /\ container = <<400 * Scale, 300 * Scale>>
  /\ particles \in InitParticles(settings.particleCount, container[1],
                                  container[2])
  /\ closures = (1 :> [s |-> settings, width |-> container[1],
                       height |-> container[2]])
  /\ animationFrameId = 1
  /\ rafSeq = 1
  /\ frames = {[id |-> 1, inst |-> 1]}
  /\ listeners = {1}
  /\ inst = 1
  /\ frameOps = <<>>
  /\ ctxErrors = 0
  /\ lastOp = "toggleRandom"
  /\ randomizerOptions \in [Fields -> BOOLEAN]
  /\ href = NoParam
  /\ fromURL = NotCalled

NextRandomize == Randomize

SpecRandomize == InitRandomize /\ [][NextRandomize]_vars

\* the component with imported presets in localStorage
NextInvalid ==
  \/ Mount
  \/ Unmount
  \/ LoadPreset
  \/ LoadImported
  \/ Resize
  \/ Tick

SpecInvalid == Init /\ [][NextInvalid]_vars

TypeOK ==
  /\ mounted \in BOOLEAN
  /\ inst \in 0..MaxEffects
  /\ rafSeq \in 0..MaxHandle

(* ------------------------------ claims -------------------------------- *)
Epsilon == 1

ForceFields == {"velocityCap", "repulsionRadius", "attractionRadius",
                "cohesionForce", "friction", "randomForce", "rotationSpeed"}
SpeedSq(v) == v[1] * v[1] + v[2] * v[2]
InSurface(p, w, h) == 0 <= p.x /\ p.x < w /\ 0 <= p.y /\ p.y < h
UpdateOps == {k \in 1..Len(frameOps) : frameOps[k].op = "update"}
RenderOps == {k \in 1..Len(frameOps) : frameOps[k].op \in {"fillRect", "shape"}}
Ticked == mounted /\ ctxOk /\ lastOp = "tick"

\* C1: in the two-body configuration (particles at rest at (0,0) and (10,0),
\* repulsionRadius 40, attractionRadius 120, no cohesion, no jitter,
\* friction 1, velocityCap 100, surface 800x600) one tick leaves both
\* particles with a nonzero velocity, the two velocities pointing away from
\* each other and of equal magnitude.
TwoBodyStart ==
  /\ mounted /\ ctxOk
  /\ settings = TwoBody
  /\ container = <<800 * Scale, 600 * Scale>>
  /\ width = 800 * Scale /\ height = 600 * Scale
  /\ particles = << [x |-> 0, y |-> 0, vx |-> 0, vy |-> 0,
                     rotation |-> particles[1].rotation],
                    [x |-> 10 * Scale, y |-> 0, vx |-> 0, vy |-> 0,
                     rotation |-> particles[2].rotation] >>
TwoBodySymmetric ==
  [][ (TwoBodyStart /\ lastOp' = "tick")
      => /\ particles'[1].vx < 0 /\ particles'[2].vx > 0
         /\ SpeedSq(<<particles'[1].vx, particles'[1].vy>>)
              = SpeedSq(<<particles'[2].vx, particles'[2].vy>>) ]_vars

\* C2: after every tick every particle's x lies in [0, width) and its y in
\* [0, height), for the current layout size of the surface.
PositionsInSurface ==
  Ticked => \A i \in 1..Len(particles) : InSurface(particles[i], width, height)

\* C3 as stated: after the clamp of a tick every particle's speed is at most
\* velocityCap, and a velocity whose speed is at most velocityCap is left
\* unchanged.
SpeedWithinCap ==
  Ticked => \A k \in UpdateOps :
    /\ SpeedSq(frameOps[k].post) <= settings.velocityCap * settings.velocityCap
    /\ SpeedSq(frameOps[k].pre) <= settings.velocityCap * settings.velocityCap
         => frameOps[k].post = frameOps[k].pre

\* C3 as amended: after the clamp of a tick every particle's speed is at most
\* velocityCap plus one rounding unit, a velocity whose speed is at most
\* velocityCap is left unchanged, and rescaling flips no component's sign.
SpeedWithinCapEpsilon ==
  Ticked => \A k \in UpdateOps :
    /\ SpeedSq(frameOps[k].post)
         <= (settings.velocityCap + Epsilon) * (settings.velocityCap + Epsilon)
    /\ SpeedSq(frameOps[k].pre) <= settings.velocityCap * settings.velocityCap
         => frameOps[k].post = frameOps[k].pre
    /\ frameOps[k].post[1] * frameOps[k].pre[1] >= 0
    /\ frameOps[k].post[2] * frameOps[k].pre[2] >= 0
\* a tick in which the clamp rescaled a velocity
ClampActed ==
  Ticked /\ \E k \in UpdateOps :
    /\ Hypot(frameOps[k].pre[1], frameOps[k].pre[2]) > settings.velocityCap
    /\ frameOps[k].post # frameOps[k].pre

\* C4: while the component is mounted the pool's length is particleCount, and
\* a change of particleCount leaves a pool of fresh particles, at rest and
\* inside the surface, on which no tick has run.
FreshPool(ps, n, w, h) ==
  /\ Len(ps) = n
  /\ \A i \in 1..Len(ps) : ps[i].vx = 0 /\ ps[i].vy = 0 /\ InSurface(ps[i], w, h)
PoolMatchesCount ==
  [][ mounted'
      => /\ Len(particles') = settings'.particleCount
         /\ (mounted /\ settings'.particleCount # settings.particleCount)
              => /\ FreshPool(particles', settings'.particleCount,
                              closures'[inst'].width, closures'[inst'].height)
                 /\ lastOp' # "tick" ]_vars
\* the pool right after particleCount was lowered
CountChanged ==
  /\ mounted /\ lastOp = "setNumber"
  /\ settings.particleCount # DEFAULTS.particleCount
  /\ settings.particleCount > 0
  /\ FreshPool(particles, settings.particleCount, width, height)

\* C5: a change of one force coefficient alone leaves the particle pool as it
\* was.
ForceChangeKeepsPool ==
  [][ (mounted /\ mounted' /\ settings' # settings
       /\ \E f \in ForceFields : settings' = [settings EXCEPT ![f] = settings'[f]])
      => particles' = particles ]_vars

\* C6: right after a container resize is handled the pool holds particleCount
\* particles, all inside the new bounds.
ResizeReinitializesPool ==
  (mounted /\ lastOp = "resize")
    => /\ Len(particles) = settings.particleCount
       /\ \A i \in 1..Len(particles) : InSurface(particles[i], width, height)

\* C7: every pending frame callback and every registered resize listener
\* belongs to the effect instance set up last of a mounted component: once an
\* instance is torn down none of its callbacks or listeners is left to run.
TeardownCancels ==
  /\ \A f \in frames : mounted /\ f.inst = inst
  /\ \A l \in listeners : mounted /\ l = inst
\* an unmount after the loop has run ticks
TornDownAfterTicks == ~mounted /\ lastOp = "unmount" /\ rafSeq >= 2 /\ inst = 1

NoLoopWithoutContext ==
  (mounted /\ ~ctxOk) => frames = {} /\ listeners = {} /\ ctxErrors <= 1

\* C10 as stated: for every shape the cached path is the compilation of the
\* current svgPathData (absent if it is invalid) and the error flag is set
\* exactly if the current svgPathData is invalid.
PathIsCurrent ==
  /\ customSVGPath2D = (IF Path2DThrows(settings.svgPathData) THEN NoPath
                        ELSE settings.svgPathData)
  /\ svgError <=> Path2DThrows(settings.svgPathData)
CompiledPathCurrent == mounted => PathIsCurrent

\* C10 as amended: while shape is customSVG the cached path is the
\* compilation of the current svgPathData (absent if it is invalid) and the
\* error flag is set exactly if the current svgPathData is invalid.
CompiledPathCurrentCustom ==
  (mounted /\ settings.shape = "customSVG") => PathIsCurrent
\* an invalid path string entered while a valid path was cached
InvalidPathEntered ==
  /\ mounted /\ settings.shape = "customSVG" /\ lastOp = "handleSvgChange"
  /\ settings.svgPathData = BadPath /\ customSVGPath2D = NoPath /\ svgError

\* C11: with shape customSVG, once an invalid svgPathData has left no
\* compiled path and the error set, entering a valid svgPathData restores the
\* compiled path, clears the error and leaves the particle pool exactly as it
\* was (same positions and velocities).
RecoveryKeepsPool ==
  [][ (/\ mounted /\ settings.shape = "customSVG"
       /\ Path2DThrows(settings.svgPathData)
       /\ customSVGPath2D = NoPath /\ svgError
       /\ lastOp' = "handleSvgChange"
       /\ ~Path2DThrows(settings'.svgPathData))
      => /\ customSVGPath2D' = settings'.svgPathData
         /\ ~svgError'
         /\ particles' = particles ]_vars

\* the Parameter Set shape: nine finite numbers and one of the four shapes
WellFormed(s) ==
  /\ \A f \in NumberFields : s[f] # NaN
  /\ s.shape \in Shapes
Finite(p) == NaN \notin {p.x, p.y, p.vx, p.vy}

\* C12: a non-finite numeric parameter that reaches a tick is treated as 0:
\* after every tick every particle's x, y, vx and vy is finite and the next
\* frame is requested.
NonFiniteCoerced ==
  Ticked => /\ \A i \in 1..Len(particles) : Finite(particles[i])
            /\ \E f \in frames : f.inst = inst

\* C13: loading a stored preset that does not have the Parameter Set shape
\* (a field missing or of the wrong type, a shape outside the four) is
\* ignored: every parameter keeps the value it had.
MalformedPresetIgnored ==
  [][ (mounted /\ lastOp' = "loadPreset" /\ ~WellFormed(settings'))
      => settings' = settings ]_vars

\* the second particle lies on the first one's row, not to its left
Aligned ==
  /\ Len(particles) = 2
  /\ particles[1].y = particles[2].y
  /\ particles[2].x >= particles[1].x
Gap == particles[2].x - particles[1].x
\* the repulsion magnitude between two particles e apart
RepulsionAt(e, s) == -PairForce([x |-> 0, y |-> 0], [x |-> e, y |-> 0], s)[1]

\* C14 as stated: at every distance d of [0, repulsionRadius) the repulsion
\* on a particle has magnitude (repulsionRadius - d) / repulsionRadius, which
\* does not grow with d, and at every d >= repulsionRadius it is zero.
RepulsionOnClosedInterval ==
  [][ (Aligned /\ lastOp' = "tick")
      => LET d == Gap
             R == settings.repulsionRadius
             f == frameOps'[2].force
         IN /\ (0 <= d /\ d < R)
                 => /\ f = << -RoundDiv((R - d) * Scale, R), 0 >>
                    /\ \A e \in StepDistances :
                         (d < e /\ e < R) => -f[1] >= RepulsionAt(e, settings)
            /\ (d >= R /\ settings.cohesionForce = 0) => f = <<0, 0>> ]_vars

\* C14 as amended: at every distance d of (0, repulsionRadius) the repulsion
\* on a particle has magnitude (repulsionRadius - d) / repulsionRadius, which
\* does not grow with d; at d = 0 and at every d >= repulsionRadius it is
\* zero.
RepulsionOnOpenInterval ==
  [][ (Aligned /\ lastOp' = "tick")
      => LET d == Gap
             R == settings.repulsionRadius
             f == frameOps'[2].force
         IN /\ (0 < d /\ d < R)
                 => /\ f = << -RoundDiv((R - d) * Scale, R), 0 >>
                    /\ \A e \in StepDistances :
                         (d < e /\ e < R) => -f[1] >= RepulsionAt(e, settings)
            /\ d = 0 => f = <<0, 0>>
            /\ (d >= R /\ settings.cohesionForce = 0) => f = <<0, 0>> ]_vars
\* a tick in which a particle was repelled with part of the full strength
RepulsionActed ==
  /\ Ticked /\ Len(frameOps) = 5
  /\ frameOps[2].force[1] < 0 /\ frameOps[2].force[1] > -Scale

\* C15: for every repulsionRadius R and attractionRadius A, R >= A included,
\* the attraction on a particle from a neighbour at distance d is zero for
\* d < R and for d >= A, is ((d - R) / (A - R)) * cohesionForce for
\* R <= d < A, never exceeds |cohesionForce| in magnitude, and is computed
\* without a division by zero.
AttractionPiecewise ==
  [][ (Aligned /\ lastOp' = "tick")
      => LET d == Gap
             R == settings.repulsionRadius
             A == settings.attractionRadius
             c == settings.cohesionForce
             f == frameOps'[2].force
         IN /\ (R <= d /\ d < A) => /\ A - R # 0
                                     /\ f = << RoundDiv((d - R) * c, A - R), 0 >>
            /\ (d >= R /\ d >= A) => f = <<0, 0>>
            /\ d < R => f = << IF d > 0 THEN -RoundDiv((R - d) * Scale, R) ELSE 0,
                               0 >>
            /\ d >= R => Abs(f[1]) <= Abs(c) ]_vars
\* a tick in which a particle was attracted with part of cohesionForce
AttractionActed ==
  /\ Ticked /\ Len(frameOps) = 5
  /\ frameOps[2].force[1] > 0 /\ frameOps[2].force[1] < settings.cohesionForce

\* the parameters under which no force acts
ForcesOff(s) ==
  s.randomForce = 0 /\ s.cohesionForce = 0 /\ s.repulsionRadius = 0

UnflaggedKept ==
  [][ lastOp' = "randomize"
      => \A f \in Fields : ~randomizerOptions[f] => settings'[f] = settings[f] ]_vars
\* a randomize that gave repulsionRadius a new value and kept the tuned
\* values of unflagged fields
RandomizedWithFlagsOff ==
  /\ mounted /\ lastOp = "randomize"
  /\ randomizerOptions.repulsionRadius /\ settings.repulsionRadius = 20 * Scale
  /\ \E f \in Fields : ~randomizerOptions[f] /\ settings[f] # DEFAULTS[f]
  /\ \E f \in Fields : ~randomizerOptions[f] /\ settings[f] = DEFAULTS[f]

\* C18: if from some point on the component stays mounted with a context,
\* then however parameter changes and resizes interleave, ticks occur again
\* and again: the loop requests its next frame after every tick and every
\* teardown is followed by a restart that requests one.
LoopKeepsTicking ==
  (<>[](mounted /\ ctxOk)) => []<><<TickLive>>_vars
\* a tick of an effect instance that was set up by a restart
TickedAfterRestart ==
  /\ Ticked /\ inst # 1
  /\ \E f \in frames : f.inst = inst

\* C19: at every time at most one frame callback is pending and at most one
\* resize listener is registered, and the pool changes only by the tick of
\* the effect instance set up last, by that instance's initParticles, or by
\* the unmount.
SingleLoop ==
  [][ /\ Cardinality(frames') <= 1
      /\ Cardinality(listeners') <= 1
      /\ particles' # particles
           => \/ inst' # inst
              \/ ~mounted'
              \/ /\ lastOp' = "tick"
                 /\ \A f \in frames \ frames' : f.inst = inst ]_vars
\* a tick that moved the pool of an instance set up after a parameter change
RestartedLoopMoved ==
  /\ Ticked /\ inst >= 2
  /\ Cardinality(frames) = 1 /\ Cardinality(listeners) = 1
  /\ \E i \in 1..Len(particles) : particles[i].vx # 0

\* preset data JSON can carry as it is
JsonSafe(data) == \A k \in 1..Len(data) : data[k] # NaN

\* C20 as stated: for every preset name and data, tryLoadPresetFromURL on
\* the URL makeShareLink gave for them returns that name and that data; on a
\* URL without a preset parameter, or with one that cannot be decoded, it
\* returns null and does not throw.
ShareRoundTrip ==
  [][ lastOp' = "tryLoadPresetFromURL"
      => /\ \A name \in ShareNames : \A data \in ShareData :
              href = MakeShareLink(name, data)
                => fromURL' = [kind |-> "preset", name |-> name, data |-> data]
         /\ href \in OtherURLs => fromURL' = NullResult ]_vars

\* C20, what the code does: for every non-empty preset name and every data
\* that JSON can carry, tryLoadPresetFromURL on the URL makeShareLink gave for
\* them returns that name and that data; for an empty name it returns null,
\* and for data with a NaN it returns the data with null in its place; on a
\* URL without a preset parameter, or with one that cannot be decoded, it
\* returns null; it never throws.
ShareRoundTripNamed ==
  [][ lastOp' = "tryLoadPresetFromURL"
      => /\ \A name \in ShareNames : \A data \in ShareData :
              href = MakeShareLink(name, data)
                => IF name = <<>> THEN fromURL' = NullResult
                   ELSE IF JsonSafe(data)
                        THEN fromURL' = [kind |-> "preset", name |-> name,
                                         data |-> data]
                        ELSE fromURL' = [kind |-> "preset", name |-> name,
                                         data |-> <<JsonNull>>]
         /\ href \in OtherURLs => fromURL' = NullResult
         /\ fromURL'.kind # "threw" ]_vars
\* a preset with a name outside ASCII and a field, read back from a share
\* link
SharedPresetLoaded ==
  /\ lastOp = "tryLoadPresetFromURL"
  /\ fromURL = [kind |-> "preset", name |-> <<65, 233>>, data |-> <<1>>]
  /\ href = MakeShareLink(<<65, 233>>, <<1>>)

====
